---- MODULE Spec2Model ----
(***************************************************************************)
(* gillespie_simulation (src/gillespie.py): the stochastic simulation loop *)
(* of the Lotka-Volterra simulator.  One run of the function is modelled:  *)
(* the arguments are chosen in Init, every pass through the loop body is   *)
(* one action, the two random draws of a pass are its \E inputs.           *)
(*                                                                         *)
(* numpy arrays are objects: `heap` holds their contents, the program's    *)
(* variables hold references (indices into heap), so that `.copy()`, the   *)
(* in-place `+=` and the rebinding by np.maximum are told apart.           *)
(* Times are counted in ticks; a float keeps MantBits significant bits and *)
(* an addition rounds to the nearest float, ties to even, as IEEE-754      *)
(* does.  Array elements are IntBits-bit two's-complement integers (the    *)
(* caller builds the state with np.array of Python ints).                  *)
(***************************************************************************)
EXTENDS Integers, Sequences, FiniteSets, TLC

\* ---------------------------------------------------------------- bounds
MaxInit == 2        \* initial populations range over 0..MaxInit
MaxTime == 6        \* max_time ranges over the floats of -1..MaxTime
MaxStep == 2        \* waiting-time draws range over 0..MaxStep ticks
MaxLen == 3         \* Spec stops firing once the trajectory has MaxLen entries
MantBits == 2       \* significant bits of a float
IntBits == 4        \* width of an array element

VARIABLES
    initial_state,    \* the value the caller passed (contents of its array)
    propensity_func,  \* the evaluator passed (a name of PropensityFuncs)
    reaction_func,    \* the stoichiometry provider passed (a name of ReactionFuncs)
    max_time,
    heap,             \* contents of every array object, by reference
    current_state,    \* reference
    times,            \* list of times
    populations,      \* list of references
    current_time,
    reactions,        \* the table reaction_func() returned
    propensities,     \* local of the loop body, <<>> while unbound
    time_step,        \* local of the loop body, -1 while unbound
    reaction_index,   \* local of the loop body (1-based), 0 while unbound
    pc                \* "loop" (at the while test), "done" (returned), "error" (raised)

vars == <<initial_state, propensity_func, reaction_func, max_time, heap,
          current_state, times, populations, current_time, reactions,
          propensities, time_step, reaction_index, pc>>

\* ------------------------------------------------------------ arithmetic
RECURSIVE Pow2(_)
Pow2(n) == IF n = 0 THEN 1 ELSE 2 * Pow2(n - 1)

\* The exponent e with x < 2^(MantBits+e), least such: floats near x are
\* spaced 2^e apart.
RECURSIVE FlExp(_, _)
FlExp(x, e) == IF x < Pow2(MantBits + e) THEN e ELSE FlExp(x, e + 1)

\* Round a non-negative real (here: a tick count) to the nearest float,
\* ties to the even significand.
FlRound(x) ==
    LET u == Pow2(FlExp(x, 0))
        q == x \div u
        r == x % u
    IN  IF 2 * r < u THEN q * u
        ELSE IF 2 * r > u THEN (q + 1) * u
        ELSE IF q % 2 = 0 THEN q * u ELSE (q + 1) * u

\* current_time + time_step in float arithmetic.
FlAdd(a, b) == FlRound(a + b)

\* An array element after an addition: two's complement, no overflow check.
Wrap(x) == ((x + Pow2(IntBits - 1)) % Pow2(IntBits)) - Pow2(IntBits - 1)

RECURSIVE SumSeq(_)
SumSeq(s) == IF s = <<>> THEN 0 ELSE Head(s) + SumSeq(Tail(s))

\* ---------------------------------------------------------------- inputs
\* The reaction-model collaborator's table (main.py imports it from
\* lotka_volterra): prey birth, predation, predator death.  "pairs" is a
\* second integer table, whose first two channels move prey two at a time.
ReactionFunc(f) ==
    CASE f = "lotka_volterra" -> << <<1, 0>>, <<-1, 1>>, <<0, -1>> >>
      [] f = "pairs"          -> << <<2, 0>>, <<-2, 1>>, <<0, -1>> >>

\* Evaluators a caller may pass, as state |-> propensity vector; rate
\* constants are 1 (only zero against positive, and the length, are read).
\*   lotka_volterra  mass action, vanishes with the populations it needs
\*   constant        never vanishes, so a channel can fire at population 0
\*   prey_birth      [birth * prey, 0, 0]
\*   predator_death  [0, 0, death * predator]
\*   short, long     one channel fewer / more than the table has rows
PropensityFunc(f, s) ==
    CASE f = "lotka_volterra" -> <<s[1], s[1] * s[2], s[2]>>
      [] f = "constant"       -> <<1, 1, 1>>
      [] f = "prey_birth"     -> <<s[1], 0, 0>>
      [] f = "predator_death" -> <<0, 0, s[2]>>
      [] f = "short"          -> <<1, 1>>
      [] f = "long"           -> <<1, 1, 1, 1>>

\* The (evaluator, table) pairs the runs are started with.
Models ==
    { <<"lotka_volterra", "lotka_volterra">>, <<"constant", "lotka_volterra">>,
      <<"prey_birth", "lotka_volterra">>, <<"predator_death", "lotka_volterra">>,
      <<"short", "lotka_volterra">>, <<"long", "lotka_volterra">>,
      <<"lotka_volterra", "pairs">>, <<"constant", "pairs">> }

InitialStates == { <<x, y>> : x \in 0..MaxInit, y \in 0..MaxInit }

\* max_time is a float (or a non-positive number).
MaxTimes == { t \in -1..MaxTime : t < 0 \/ FlRound(t) = t }

Draws == 0..MaxStep
PositiveDraws == 1..MaxStep

\* ------------------------------------------------------------ numpy arrays
\* Mutant of Copy: the reference itself is stored, no copy is made.
CopyAlias(h, r) == [heap |-> h, ref |-> r]

\* a.copy(): a new object with the contents of a.
Copy(h, r) == [heap |-> Append(h, h[r]), ref |-> Len(h) + 1]

\* Mutant of InPlaceAdd: the row is subtracted.
InPlaceSub(h, r, row) ==
    [h EXCEPT ![r] = [i \in 1..Len(h[r]) |-> Wrap(h[r][i] - row[i])]]

\* a += row: the object a refers to is changed in place.
InPlaceAdd(h, r, row) ==
    [h EXCEPT ![r] = [i \in 1..Len(h[r]) |-> Wrap(h[r][i] + row[i])]]

Max0(x) == IF x > 0 THEN x ELSE 0

\* Mutant of Maximum: the floor at 0 is left out.
MaximumNoFloor(h, r) == [heap |-> Append(h, h[r]), ref |-> Len(h) + 1]

\* np.maximum(a, 0): a new object, every component floored at 0.
Maximum(h, r) ==
    [heap |-> Append(h, [i \in 1..Len(h[r]) |-> Max0(h[r][i])]), ref |-> Len(h) + 1]

\* The lists as np.array(populations) reads them at the return.
Snapshot(k) == heap[populations[k]]
State == heap[current_state]

\* --------------------------------------------------------- random choices
\* Mutant of Choices: the index is drawn uniformly, the probabilities unused.
ChoicesAny(p) == 1..Len(p)

\* np.random.choice(len(propensities), p=propensities / propensity_sum):
\* an index of positive probability.
Choices(p) == { i \in 1..Len(p) : p[i] > 0 }

\* Mutant of IsDead: only the first channel is looked at.
IsDeadFirst(p) == p[1] = 0

\* np.sum(propensities) == 0
IsDead(p) == SumSeq(p) = 0

\* Mutants of Exceeds: the horizon test is off by one tick; the waiting time
\* alone is compared with max_time.
ExceedsOffByOne(t, tau, horizon) == FlAdd(t, tau) > horizon + 1

ExceedsStepOnly(t, tau, horizon) == tau > horizon

\* current_time + time_step > max_time
Exceeds(t, tau, horizon) == FlAdd(t, tau) > horizon

\* Mutant of LoopTest: <= for <.
LoopTestLe(t, horizon) == t <= horizon

\* while current_time < max_time
LoopTest(t, horizon) == t < horizon

\* Mutant of Advance: = for +=.
AdvanceAssign(t, tau) == tau

\* current_time += time_step
Advance(t, tau) == FlAdd(t, tau)

\* ------------------------------------------------------------------ Init
\* Lines 27-33: the state when the while test is first reached.
Init ==
    /\ initial_state \in InitialStates
    /\ max_time \in MaxTimes
    /\ \E m \in Models : propensity_func = m[1] /\ reaction_func = m[2]
    /\ LET c1 == Copy(<<initial_state>>, 1)
           c2 == Copy(c1.heap, c1.ref)
       IN  /\ heap = c2.heap
           /\ current_state = c1.ref
           /\ populations = <<c2.ref>>
    /\ times = <<0>>
    /\ current_time = 0
    /\ reactions = ReactionFunc(reaction_func)
    /\ propensities = <<>>
    /\ time_step = -1
    /\ reaction_index = 0
    /\ pc = "loop"

inputs == <<initial_state, propensity_func, reaction_func, max_time, reactions>>

\* --------------------------------------------------------- bounded history
\* The loop only ever appends to times and populations and never reads
\* them.  With full = TRUE an action keeps the whole lists; with
\* full = FALSE it keeps their last two entries and drops the array
\* objects nothing refers to any more, so that a run that never returns
\* is a cycle of finitely many states.
LastTwo(s) == IF Len(s) <= 2 THEN s ELSE SubSeq(s, Len(s) - 1, Len(s))

Kept(cs, pops) == {1, cs} \cup { pops[k] : k \in 1..Len(pops) }

Rank(refs, r) == Cardinality({ k \in refs : k <= r })

Compact(h, cs, pops) ==
    LET refs == Kept(cs, pops)
    IN  [heap |-> [i \in 1..Cardinality(refs) |->
                      h[CHOOSE r \in refs : Rank(refs, r) = i]],
         current_state |-> Rank(refs, cs),
         populations |-> [k \in 1..Len(pops) |-> Rank(refs, pops[k])]]

\* The appends of lines 53-54 and 71-72: time t, a copy of the array cs.
\* (\E x \in {e} names the value of e.)
Record(full, h, cs, t) ==
    \E c \in {Copy(h, cs)} :
        IF full
        THEN /\ times' = Append(times, t)
             /\ heap' = c.heap
             /\ current_state' = cs
             /\ populations' = Append(populations, c.ref)
        ELSE \E g \in {Compact(c.heap, cs, LastTwo(Append(populations, c.ref)))} :
                 /\ times' = LastTwo(Append(times, t))
                 /\ heap' = g.heap
                 /\ current_state' = g.current_state
                 /\ populations' = g.populations

\* --------------------------------------------------------------- actions
\* Line 36 false, line 74: the loop is left by its test.
Return ==
    /\ pc = "loop"
    /\ ~LoopTest(current_time, max_time)
    /\ pc' = "done"
    /\ UNCHANGED <<inputs, heap, current_state, times, populations,
                   current_time, propensities, time_step, reaction_index>>

\* Lines 36-45: all propensities are zero, break.
Absorb ==
    /\ pc = "loop"
    /\ LoopTest(current_time, max_time)
    /\ LET p == PropensityFunc(propensity_func, State)
       IN  /\ IsDead(p)
           /\ propensities' = p
    /\ pc' = "done"
    /\ UNCHANGED <<inputs, heap, current_state, times, populations,
                   current_time, time_step, reaction_index>>

\* Lines 36-55: the drawn waiting time passes max_time; the clock is set to
\* max_time, the unchanged state is recorded, break.
Truncate(D, full) ==
    /\ pc = "loop"
    /\ LoopTest(current_time, max_time)
    /\ \E tau \in D :
         LET p == PropensityFunc(propensity_func, State)
         IN  /\ ~IsDead(p)
             /\ Exceeds(current_time, tau, max_time)
             /\ propensities' = p
             /\ time_step' = tau
             /\ current_time' = max_time
             /\ Record(full, heap, current_state, max_time)
    /\ pc' = "done"
    /\ UNCHANGED <<inputs, reaction_index>>

\* Lines 36-72: a reaction fires.
Fire(D, full) ==
    /\ pc = "loop"
    /\ LoopTest(current_time, max_time)
    /\ full => Len(times) < MaxLen
    /\ \E tau \in D :
         LET p == PropensityFunc(propensity_func, State)
         IN  /\ ~IsDead(p)
             /\ ~Exceeds(current_time, tau, max_time)
             /\ \E j \in Choices(p) :
                  /\ j <= Len(reactions)
                  /\ \E t \in {Advance(current_time, tau)} :
                     \E h1 \in {InPlaceAdd(heap, current_state, reactions[j])} :
                     \E m \in {Maximum(h1, current_state)} :
                         /\ current_time' = t
                         /\ Record(full, m.heap, m.ref, t)
                  /\ reaction_index' = j
             /\ propensities' = p
             /\ time_step' = tau
    /\ pc' = "loop"
    /\ UNCHANGED inputs

\* Lines 36-65: the drawn index is past the table's last row, and
\* reactions[reaction_index] raises IndexError out of the function.
IndexFail(D) ==
    /\ pc = "loop"
    /\ LoopTest(current_time, max_time)
    /\ \E tau \in D :
         LET p == PropensityFunc(propensity_func, State)
         IN  /\ ~IsDead(p)
             /\ ~Exceeds(current_time, tau, max_time)
             /\ \E j \in Choices(p) :
                  /\ j > Len(reactions)
                  /\ reaction_index' = j
             /\ current_time' = Advance(current_time, tau)
             /\ propensities' = p
             /\ time_step' = tau
    /\ pc' = "error"
    /\ UNCHANGED <<inputs, heap, current_state, times, populations>>

Next ==
    \/ Return
    \/ Absorb
    \/ Truncate(Draws, TRUE)
    \/ Fire(Draws, TRUE)
    \/ IndexFail(Draws)

Spec == Init /\ [][Next]_vars

\* The function runs on one thread and a pass of the loop always completes:
\* a run takes its next step whenever it has one.  Waiting times are
\* strictly positive here, and only the last two trajectory entries are kept.
NextLive ==
    \/ Return
    \/ Absorb
    \/ Truncate(PositiveDraws, FALSE)
    \/ Fire(PositiveDraws, FALSE)
    \/ IndexFail(PositiveDraws)

LiveSpec == Init /\ [][NextLive]_vars /\ WF_vars(NextLive)

\* ------------------------------------------------------------ properties
N == Len(times)

Diff(a, b) == [i \in 1..Len(a) |-> a[i] - b[i]]

Plus(a, row) == [i \in 1..Len(a) |-> a[i] + row[i]]

MaxInt == Pow2(IntBits - 1) - 1

\* The last entry was appended by lines 51-55: the run has returned and the
\* last waiting time, added to the time before it, passed max_time.
ByTruncation ==
    /\ pc = "done"
    /\ N >= 2
    /\ time_step >= 0
    /\ FlRound(times[N - 1] + time_step) > max_time

\* Entry k + 1 is not the horizon-truncation entry.
Fired(k) == ~(k + 1 = N /\ ByTruncation)

\* C1 as stated: a returned trajectory of at least two entries whose last
\* time is max_time exactly has equal last and penultimate states.
C1_EndAtHorizonKeepsState ==
    (pc = "done" /\ N >= 2 /\ times[N] = max_time) => Snapshot(N) = Snapshot(N - 1)

\* C1 amended: when the last entry was appended by horizon truncation
\* (current_time + time_step > max_time), its time is max_time and its state
\* equals the penultimate state.
C1_TruncationKeepsState ==
    ByTruncation => (times[N] = max_time /\ Snapshot(N) = Snapshot(N - 1))

C1_Witness ==
    /\ ByTruncation
    /\ N >= 3
    /\ Snapshot(N) # initial_state

\* C2 as stated: between consecutive entries other than the truncation
\* entry, new_state - old_state is exactly one row of the table.
C2_DiffIsRow ==
    \A k \in 1..(N - 1) :
        Fired(k) => \E j \in 1..Len(reactions) : Diff(Snapshot(k + 1), Snapshot(k)) = reactions[j]

\* C2 amended: between consecutive entries other than the truncation entry,
\* new_state is old_state + row for one row of the table, computed in the
\* array's integer type and then floored at 0 component-wise; the
\* difference is that row whenever old_state + row has no negative
\* component and does not overflow.
C2_DiffIsClampedRow ==
    \A k \in 1..(N - 1) :
        Fired(k) =>
            \E j \in 1..Len(reactions) :
                LET sum == Plus(Snapshot(k), reactions[j])
                IN  /\ Snapshot(k + 1) = [i \in 1..Len(sum) |-> Max0(Wrap(sum[i]))]
                    /\ (\A i \in 1..Len(sum) : sum[i] \in 0..MaxInt)
                           => Diff(Snapshot(k + 1), Snapshot(k)) = reactions[j]

\* A reaction has fired into a state it would have driven below zero.
C2_Witness ==
    /\ pc = "loop"
    /\ N >= 2
    /\ reaction_index \in 1..Len(reactions)
    /\ \E i \in 1..2 : Snapshot(N - 1)[i] + reactions[reaction_index][i] < 0
    /\ \A j \in 1..Len(reactions) : Diff(Snapshot(N), Snapshot(N - 1)) # reactions[j]

\* The evaluator's last vector and the table differ in length.
Mismatched == propensities # <<>> /\ Len(propensities) # Len(reactions)

\* C3: once propensity_func has returned a vector whose length is not the
\* table's number of rows, the run has failed with an error, without having
\* appended an entry.
C3_MismatchFailsFast ==
    Mismatched => (pc = "error" /\ N = 1)

\* C4: a returned trajectory whose last time is below max_time ends in a
\* state whose propensities sum to zero.
C4_EarlyEndIsAbsorbed ==
    (pc = "done" /\ times[N] < max_time)
        => SumSeq(PropensityFunc(propensity_func, Snapshot(N))) = 0

C4_Witness ==
    /\ pc = "done"
    /\ times[N] < max_time
    /\ N >= 3

NonDecreasing == \A k \in 1..(N - 1) : times[k] <= times[k + 1]

\* C5 as stated: in the returned trajectory times never decrease and no
\* entry's time exceeds max_time, for non-positive max_time too.
C5_TimesBounded ==
    pc = "done" =>
        /\ NonDecreasing
        /\ \A k \in 1..N : times[k] <= max_time

\* C5 amended: times never decrease; no entry's time exceeds max_time when
\* max_time >= 0; for max_time < 0 the trajectory is the single entry at
\* time 0, which is above max_time.
C5_TimesBoundedFromZero ==
    /\ NonDecreasing
    /\ max_time >= 0 => \A k \in 1..N : times[k] <= max_time
    /\ max_time < 0 => times = <<0>>

C5_Witness ==
    /\ pc = "done"
    /\ N >= 3
    /\ times[N] = max_time
    /\ times[N - 1] < max_time
    /\ times[N - 1] > 0

\* The scenario of C6: no prey, some predators, only predator death has a
\* positive propensity.
DeathScenario ==
    /\ initial_state[1] = 0
    /\ initial_state[2] > 0
    /\ propensity_func = "predator_death"
    /\ reaction_func = "lotka_volterra"
    /\ max_time > 0

\* C6 as stated: in the scenario every run ends with last time strictly
\* before max_time and predator = 0.
C6_DiesOutBeforeHorizon ==
    (DeathScenario /\ pc = "done") => (times[N] < max_time /\ Snapshot(N)[2] = 0)

\* C6 amended: in the scenario prey stays 0 and every fired event lowers the
\* predator count by exactly 1; a run that ends before max_time ends with
\* predator = 0, and every other run ends at max_time exactly, with the
\* predators the waiting times left alive.
C6_OnlyDeaths ==
    DeathScenario =>
        /\ \A k \in 1..N : Snapshot(k)[1] = 0
        /\ \A k \in 1..(N - 1) :
               IF Fired(k) THEN Snapshot(k + 1)[2] = Snapshot(k)[2] - 1
                           ELSE Snapshot(k + 1)[2] = Snapshot(k)[2]
        /\ pc = "done" =>
               \/ times[N] < max_time /\ Snapshot(N)[2] = 0
               \/ times[N] = max_time

C6_Witness ==
    /\ DeathScenario
    /\ pc = "done"
    /\ N = 3
    /\ times[N] < max_time
    /\ Snapshot(N)[2] = 0

\* C7: with max_time <= 0 the run returns the single entry (0, initial_state)
\* and the loop body never runs: no propensity vector, waiting time or
\* reaction index is ever bound.
C7_NonPositiveHorizon ==
    max_time <= 0 =>
        /\ pc # "error"
        /\ times = <<0>>
        /\ Len(populations) = 1
        /\ Snapshot(1) = initial_state
        /\ propensities = <<>>
        /\ time_step = -1
        /\ reaction_index = 0

C7_Witness == pc = "done" /\ max_time <= 0 /\ initial_state[1] > 0

\* C8: every recorded state, and the current one, has all components >= 0.
C8_NonNegative ==
    /\ \A k \in 1..N : \A i \in 1..Len(Snapshot(k)) : Snapshot(k)[i] >= 0
    /\ \A i \in 1..Len(State) : State[i] >= 0

\* A reaction fired that would have taken a component below zero.
C8_Witness ==
    /\ pc = "loop"
    /\ N >= 2
    /\ reaction_index \in 1..Len(reactions)
    /\ \E i \in 1..2 : Snapshot(N - 1)[i] + reactions[reaction_index][i] < 0

\* C9: the trajectory is never empty, its first entry is (0, initial_state),
\* the caller's array keeps its contents, and no step changes an entry
\* already recorded.
C9_FirstEntryFixed ==
    /\ [](N >= 1 /\ Len(populations) = N /\ times[1] = 0
          /\ Snapshot(1) = initial_state /\ heap[1] = initial_state)
    /\ [][\A k \in 1..N : times'[k] = times[k]
              /\ heap'[populations'[k]] = heap[populations[k]]]_vars

C9_Witness ==
    /\ pc = "done"
    /\ N >= 3
    /\ Snapshot(2) # initial_state
    /\ Snapshot(3) # Snapshot(2)

Finished == pc # "loop"

\* The last pass drew a positive waiting time and left the clock where it was.
Stalled ==
    /\ pc = "loop"
    /\ time_step > 0
    /\ N >= 2
    /\ times[N] = times[N - 1]

\* C10 as stated: with strictly positive waiting times every run returns.
C10_Terminates == <>Finished

\* C10 amended: every run returns in which each waiting time is large
\* enough to move the clock (the float current_time + time_step is above
\* current_time); a positive waiting time below half the spacing of the
\* floats at current_time leaves the clock unchanged, and a run that keeps
\* drawing such times never returns.
C10_TerminatesUnlessStalled == <>(Finished \/ Stalled)

C10_Witness ==
    /\ pc = "done"
    /\ propensity_func = "prey_birth"
    /\ current_time = max_time
    /\ State[1] >= initial_state[1] + 2

====
